---------------------------- MODULE Spec2Model ----------------------------
(***************************************************************************)
(* Model of op-challenger/game/fault/types/types.go (PreimageOracleData,   *)
(* LocalContextPreimage, Claim) and of the Transient library test          *)
(* contracts of packages/contracts-bedrock/test/libraries/Transient.t.sol. *)
(*                                                                         *)
(* Byte strings are sequences of naturals below 256 and keep the widths    *)
(* of the code (32-byte hashes, 64-byte claim encodings, 8-byte length     *)
(* prefix).  A Go run-time panic is an outcome of its own, never a value.  *)
(***************************************************************************)
EXTENDS Integers, Sequences, FiniteSets, TLC

VARIABLES
    args,       \* arguments handed to NewPreimageOracleData
    pod,        \* <<>> before construction, <<PreimageOracleData>> after
    ret,        \* outcome of the last PreimageOracleData method call
    lcp,        \* the LocalContextPreimage under test
    out,        \* outcome of the last LocalContextPreimage / Claim method call
    test,       \* which TransientTest test runs
    value,      \* the fuzzed _value of the running test
    pc,         \* position of the running test in its call chain
    tstorage,   \* transient storage of Base: call depth -> value
    callDepth,  \* transient call-depth counter of Base
    tVariable   \* storage variable tVariable of the target contract

vars == <<args, pod, ret, lcp, out, test, value, pc, tstorage, callDepth, tVariable>>

oracleVars == <<args, pod, ret>>
contextVars == <<lcp, out>>
transientVars == <<test, value, pc, tstorage, callDepth, tVariable>>

----------------------------------------------------------------------------
(* Bounds of the model. *)

MaxKeyLen == 3
MaxDataLen == 9
MaxGIndex == 3
MaxValue == 11

(* Widths fixed by the code. *)

HashLength == 32
ClaimEncodingLength == 64
SizePrefixLength == 8
LocalKeyType == 1
REENTRANCY_VALUE == 1

----------------------------------------------------------------------------
(* Bytes and big integers. *)

Min(a, b) == IF a < b THEN a ELSE b

\* byte values the inputs are built from
ByteValues == {0, 1, 5, 255}

RECURSIVE SeqsUpTo(_, _)
\* all sequences over S of length at most n
SeqsUpTo(S, n) ==
    IF n = 0 THEN {<<>>}
    ELSE LET shorter == SeqsUpTo(S, n - 1)
         IN  shorter \cup {Append(s, x) : s \in shorter, x \in S}

\* make([]byte, n)
MakeBytes(n) == [i \in 1..n |-> 0]

\* copy(dst, src): copies min(len(dst), len(src)) bytes to the front of dst
CopyBytes(dst, src) ==
    [i \in 1..Len(dst) |-> IF i <= Min(Len(dst), Len(src)) THEN src[i] ELSE dst[i]]

RECURSIVE SetBytes(_)
\* new(big.Int).SetBytes(b): b read as a big-endian unsigned integer
SetBytes(b) ==
    IF Len(b) = 0 THEN 0
    ELSE 256 * SetBytes(SubSeq(b, 1, Len(b) - 1)) + b[Len(b)]

RECURSIVE FitsBytes(_, _)
\* whether x is below 256^n
FitsBytes(x, n) == IF n = 0 THEN x = 0 ELSE FitsBytes(x \div 256, n - 1)

RECURSIVE BigEndian(_, _)
\* the n low-order bytes of x, most significant first
BigEndian(x, n) ==
    IF n = 0 THEN <<>> ELSE Append(BigEndian(x \div 256, n - 1), x % 256)

\* x.FillBytes(buf): panics when x does not fit in len(buf) bytes
FillBytes(x, n) ==
    IF FitsBytes(x, n)
    THEN [panic |-> FALSE, bytes |-> BigEndian(x, n)]
    ELSE [panic |-> TRUE, bytes |-> <<>>]

----------------------------------------------------------------------------
(* PreimageOracleData *)

ZeroHash == MakeBytes(HashLength)

\* a hash whose 32 bytes are all different
MixedHash == [i \in 1..HashLength |-> 200 + i]

Hashes == {ZeroHash, MixedHash}

OracleKeys == SeqsUpTo(ByteValues, MaxKeyLen)

\* OracleData of every length up to MaxDataLen, bytes distinct by position
OracleDatas ==
    {[i \in 1..n |-> (seed + i) % 256] : n \in 0..MaxDataLen, seed \in {0, 250}}

OracleOffsets == {0, 7}

NoResult == [op |-> "none", panic |-> FALSE, ident |-> 0, bytes |-> <<>>]

Returned(op, ident, bytes) ==
    [op |-> op, panic |-> FALSE, ident |-> ident, bytes |-> bytes]

Panicked(op) == [op |-> op, panic |-> TRUE, ident |-> 0, bytes |-> <<>>]

NewPreimageOracleData_anyTag(lctx, key, data, offset) ==
    [IsLocal      |-> Len(key) > 0 /\ key[1] # 0,
     LocalContext |-> lctx,
     OracleKey    |-> key,
     OracleData   |-> data,
     OracleOffset |-> offset]

NewPreimageOracleData(lctx, key, data, offset) ==
    [IsLocal      |-> Len(key) > 0 /\ key[1] = LocalKeyType,
     LocalContext |-> lctx,
     OracleKey    |-> key,
     OracleData   |-> data,
     OracleOffset |-> offset]

GetLocalContextBigInt(p) ==
    Returned("GetLocalContextBigInt", 0, p.LocalContext)

GetOracleOffsetBigInt(p) ==
    Returned("GetOracleOffsetBigInt", p.OracleOffset, <<>>)

GetIdent_defaultZero(p) ==
    IF Len(p.OracleKey) < 1
    THEN Returned("GetIdent", 0, <<>>)
    ELSE Returned("GetIdent", SetBytes(SubSeq(p.OracleKey, 2, Len(p.OracleKey))), <<>>)

GetIdent_withTag(p) ==
    IF Len(p.OracleKey) < 1
    THEN Panicked("GetIdent")
    ELSE Returned("GetIdent", SetBytes(p.OracleKey), <<>>)

\* p.OracleKey[1:] panics (slice bounds out of range) on an empty key
GetIdent(p) ==
    IF Len(p.OracleKey) < 1
    THEN Panicked("GetIdent")
    ELSE Returned("GetIdent", SetBytes(SubSeq(p.OracleKey, 2, Len(p.OracleKey))), <<>>)

GetPreimageWithoutSize_short(p) ==
    IF Len(p.OracleData) < SizePrefixLength - 1
    THEN Panicked("GetPreimageWithoutSize")
    ELSE Returned("GetPreimageWithoutSize", 0,
                  SubSeq(p.OracleData, SizePrefixLength, Len(p.OracleData)))

\* p.OracleData[8:] panics (slice bounds out of range) on fewer than 8 bytes
GetPreimageWithoutSize(p) ==
    IF Len(p.OracleData) < SizePrefixLength
    THEN Panicked("GetPreimageWithoutSize")
    ELSE Returned("GetPreimageWithoutSize", 0,
                  SubSeq(p.OracleData, SizePrefixLength + 1, Len(p.OracleData)))

OracleIdle ==
    /\ args = [lctx |-> ZeroHash, key |-> <<>>, data |-> <<>>, offset |-> 0]
    /\ pod = <<>>
    /\ ret = NoResult

OracleInit ==
    /\ args \in [lctx : Hashes, key : OracleKeys, data : OracleDatas,
                 offset : OracleOffsets]
    /\ pod = <<>>
    /\ ret = NoResult

CallNewPreimageOracleData ==
    /\ pod = <<>>
    /\ pod' = <<NewPreimageOracleData(args.lctx, args.key, args.data, args.offset)>>
    /\ UNCHANGED <<args, ret, contextVars, transientVars>>

\* a panic ends the run: no call follows one
CanCall == pod # <<>> /\ ~ret.panic

CallGetLocalContextBigInt ==
    /\ CanCall
    /\ ret' = GetLocalContextBigInt(pod[1])
    /\ UNCHANGED <<args, pod, contextVars, transientVars>>

CallGetOracleOffsetBigInt ==
    /\ CanCall
    /\ ret' = GetOracleOffsetBigInt(pod[1])
    /\ UNCHANGED <<args, pod, contextVars, transientVars>>

CallGetIdent ==
    /\ CanCall
    /\ ret' = GetIdent(pod[1])
    /\ UNCHANGED <<args, pod, contextVars, transientVars>>

CallGetPreimageWithoutSize ==
    /\ CanCall
    /\ ret' = GetPreimageWithoutSize(pod[1])
    /\ UNCHANGED <<args, pod, contextVars, transientVars>>

OracleNext ==
    \/ CallNewPreimageOracleData
    \/ CallGetLocalContextBigInt
    \/ CallGetOracleOffsetBigInt
    \/ CallGetIdent
    \/ CallGetPreimageWithoutSize

----------------------------------------------------------------------------
(* Position: depth and index at depth, generalized index 2^depth + index. *)

RECURSIVE Pow2(_)
Pow2(n) == IF n = 0 THEN 1 ELSE 2 * Pow2(n - 1)

RECURSIVE Log2(_)
\* depth of the position with generalized index g >= 1
Log2(g) == IF g <= 1 THEN 0 ELSE 1 + Log2(g \div 2)

NewPosition(depth, indexAtDepth) ==
    [depth |-> depth, indexAtDepth |-> indexAtDepth]

NewPositionFromGIndex(g) == NewPosition(Log2(g), g - Pow2(Log2(g)))

ToGIndex(pos) == Pow2(pos.depth) + pos.indexAtDepth

IsRootPosition(pos) == pos.depth = 0 /\ pos.indexAtDepth = 0

\* a position whose generalized index (770 = 0x0302) takes two bytes
DeepPosition == NewPosition(9, 258)

\* valid positions: 0 <= indexAtDepth < 2^depth
Positions == {NewPositionFromGIndex(g) : g \in 1..MaxGIndex} \cup {DeepPosition}

----------------------------------------------------------------------------
(* Claim and LocalContextPreimage *)

\* Claim{}: the zero value of every field
ZeroClaim ==
    [Value |-> ZeroHash, Position |-> NewPosition(0, 0), Countered |-> FALSE,
     Clock |-> 0, ContractIndex |-> 0, ParentContractIndex |-> 0]

\* the chain-state fields of a claim: all zero, or one of them set
ChainStates ==
    {[Countered |-> cn, Clock |-> ck, ContractIndex |-> ci, ParentContractIndex |-> pi] :
        <<cn, ck, ci, pi>> \in {<<FALSE, 0, 0, 0>>, <<TRUE, 0, 0, 0>>, <<FALSE, 1, 0, 0>>,
                                <<FALSE, 0, 1, 0>>, <<FALSE, 0, 0, 1>>}}

Claims ==
    {[Value |-> v, Position |-> pos, Countered |-> m.Countered, Clock |-> m.Clock,
      ContractIndex |-> m.ContractIndex, ParentContractIndex |-> m.ParentContractIndex] :
        v \in Hashes, pos \in Positions, m \in ChainStates}

NewLocalContextPreimage(pre, post) == [Pre |-> pre, Post |-> post]

LocalContextPreimages == {NewLocalContextPreimage(pre, post) : pre \in Claims, post \in Claims}

IsRoot_contractIndex(c) == c.ContractIndex = 0

IsRoot(c) == IsRootPosition(c.Position)

UsePrestateBlock_claimData(l) ==
    l.Pre.Value = ZeroClaim.Value /\ l.Pre.Position = ZeroClaim.Position

UsePrestateBlock(l) == l.Pre = ZeroClaim

encodeClaim_noPosition(c) ==
    LET data == MakeBytes(ClaimEncodingLength)
    IN  [panic |-> FALSE,
         bytes |-> CopyBytes(SubSeq(data, 1, HashLength), c.Value)
                     \o SubSeq(data, HashLength + 1, ClaimEncodingLength)]

encodeClaim_contractIndex(c) ==
    LET data == MakeBytes(ClaimEncodingLength)
        index == FillBytes(c.ContractIndex, ClaimEncodingLength - HashLength)
    IN  [panic |-> index.panic,
         bytes |-> IF index.panic THEN <<>>
                   ELSE CopyBytes(SubSeq(data, 1, HashLength), c.Value) \o index.bytes]

\* the closure encodeClaim of Preimage
encodeClaim(c) ==
    LET data == MakeBytes(ClaimEncodingLength)
        gindex == FillBytes(ToGIndex(c.Position), ClaimEncodingLength - HashLength)
    IN  [panic |-> gindex.panic,
         bytes |-> IF gindex.panic THEN <<>>
                   ELSE CopyBytes(SubSeq(data, 1, HashLength), c.Value) \o gindex.bytes]

Preimage_postFirst(l) ==
    LET pre == IF ~UsePrestateBlock(l) THEN encodeClaim(l.Pre)
               ELSE [panic |-> FALSE, bytes |-> <<>>]
        post == encodeClaim(l.Post)
    IN  [panic |-> pre.panic \/ post.panic,
         bytes |-> IF pre.panic \/ post.panic THEN <<>> ELSE post.bytes \o pre.bytes]

Preimage(l) ==
    LET pre == IF ~UsePrestateBlock(l) THEN encodeClaim(l.Pre)
               ELSE [panic |-> FALSE, bytes |-> <<>>]
        post == encodeClaim(l.Post)
    IN  [panic |-> pre.panic \/ post.panic,
         bytes |-> IF pre.panic \/ post.panic THEN <<>> ELSE pre.bytes \o post.bytes]

\* crypto.Keccak256Hash, kept uninterpreted: a hash is named by what it hashes
Keccak256Hash(bytes) == [keccak256 |-> bytes]

Hash(l) ==
    LET preimage == Preimage(l)
    IN  [panic |-> preimage.panic, hash |-> Keccak256Hash(preimage.bytes)]

NoOutcome ==
    [op |-> "none", subject |-> "none", panic |-> FALSE, bool |-> FALSE,
     bytes |-> <<>>, hash |-> Keccak256Hash(<<>>)]

ContextIdle ==
    /\ lcp = NewLocalContextPreimage(ZeroClaim, ZeroClaim)
    /\ out = NoOutcome

ContextInit ==
    /\ \E pre \in Claims, post \in Claims : lcp = NewLocalContextPreimage(pre, post)
    /\ out = NoOutcome

CallUsePrestateBlock ==
    /\ ~out.panic
    /\ out' = [NoOutcome EXCEPT !.op = "UsePrestateBlock", !.subject = "lcp",
                                !.bool = UsePrestateBlock(lcp)]
    /\ UNCHANGED <<lcp, oracleVars, transientVars>>

CallPreimage ==
    /\ ~out.panic
    /\ out' = [NoOutcome EXCEPT !.op = "Preimage", !.subject = "lcp",
                                !.panic = Preimage(lcp).panic,
                                !.bytes = Preimage(lcp).bytes]
    /\ UNCHANGED <<lcp, oracleVars, transientVars>>

CallHash ==
    /\ ~out.panic
    /\ out' = [NoOutcome EXCEPT !.op = "Hash", !.subject = "lcp",
                                !.panic = Hash(lcp).panic,
                                !.hash = Hash(lcp).hash]
    /\ UNCHANGED <<lcp, oracleVars, transientVars>>

CallIsRoot ==
    /\ ~out.panic
    /\ \E subject \in {"Pre", "Post"} :
          out' = [NoOutcome EXCEPT !.op = "IsRoot", !.subject = subject,
                                   !.bool = IsRoot(lcp[subject])]
    /\ UNCHANGED <<lcp, oracleVars, transientVars>>

ContextNext ==
    \/ CallUsePrestateBlock
    \/ CallPreimage
    \/ CallHash
    \/ CallIsRoot

----------------------------------------------------------------------------
(* Transient library and the contracts of its test. *)

CallDepths == 0..2

Tests == {"testFuzz_transient_nonReentrant_succeeds", "test_transient_reentrant_fails"}

\* Transient.setTransientValue, up to its call of the target: the value is
\* stored in the slot of a new call depth
Transient_setTransientValue(storage, depth, v) ==
    [tstorage |-> [storage EXCEPT ![depth + 1] = v], callDepth |-> depth + 1]

\* Transient.setTransientValue, after the target returned
Transient_afterCall(depth) == depth - 1

\* Transient.getTransientValue: the slot of the current call depth
Transient_getTransientValue(storage, depth) == storage[depth]

Base_setTransientValue(v) == Transient_setTransientValue(tstorage, callDepth, v)

Base_getTransientValue_outermost == tstorage[1]

Base_getTransientValue == Transient_getTransientValue(tstorage, callDepth)

\* the call each test makes its target run
TargetOf(t) ==
    IF t = "testFuzz_transient_nonReentrant_succeeds"
    THEN "NonReentrant.setTVariable"
    ELSE "Reentrant.reentrant"

Top == pc[Len(pc)]

Pop == SubSeq(pc, 1, Len(pc) - 1)

TransientIdle ==
    /\ test = "none"
    /\ value = 0
    /\ pc = <<>>
    /\ tstorage = [d \in CallDepths |-> 0]
    /\ callDepth = 0
    /\ tVariable = 0

\* setUp, then one test with its fuzzed _value
TransientInit ==
    /\ test \in Tests
    /\ value \in 0..MaxValue
    /\ pc = <<"test">>
    /\ tstorage = [d \in CallDepths |-> 0]
    /\ callDepth = 0
    /\ tVariable = 0

\* base.setTransientValue(_value, target, payload)
TestCall ==
    /\ pc = <<"test">>
    /\ tstorage' = Base_setTransientValue(value).tstorage
    /\ callDepth' = Base_setTransientValue(value).callDepth
    /\ pc' = <<"assert", "Base.setTransientValue", TargetOf(test)>>
    /\ UNCHANGED <<test, value, tVariable, oracleVars, contextVars>>

NonReentrant_setTVariable ==
    /\ pc # <<>> /\ Top = "NonReentrant.setTVariable"
    /\ tVariable' = Base_getTransientValue
    /\ pc' = Pop
    /\ UNCHANGED <<test, value, tstorage, callDepth, oracleVars, contextVars>>

Reentrant_reentrant ==
    /\ pc # <<>> /\ Top = "Reentrant.reentrant"
    /\ tstorage' = Base_setTransientValue(REENTRANCY_VALUE).tstorage
    /\ callDepth' = Base_setTransientValue(REENTRANCY_VALUE).callDepth
    /\ pc' = Pop \o <<"Reentrant.reentrant.return", "Base.setTransientValue",
                      "Reentrant.getTVariable">>
    /\ UNCHANGED <<test, value, tVariable, oracleVars, contextVars>>

Reentrant_getTVariable ==
    /\ pc # <<>> /\ Top = "Reentrant.getTVariable"
    /\ tVariable' = Base_getTransientValue
    /\ pc' = Pop
    /\ UNCHANGED <<test, value, tstorage, callDepth, oracleVars, contextVars>>

Reentrant_reentrant_return ==
    /\ pc # <<>> /\ Top = "Reentrant.reentrant.return"
    /\ pc' = Pop
    /\ UNCHANGED <<test, value, tstorage, callDepth, tVariable, oracleVars, contextVars>>

Base_setTransientValue_return ==
    /\ pc # <<>> /\ Top = "Base.setTransientValue"
    /\ callDepth' = Transient_afterCall(callDepth)
    /\ pc' = Pop
    /\ UNCHANGED <<test, value, tstorage, tVariable, oracleVars, contextVars>>

TransientNext ==
    \/ TestCall
    \/ NonReentrant_setTVariable
    \/ Reentrant_reentrant
    \/ Reentrant_getTVariable
    \/ Reentrant_reentrant_return
    \/ Base_setTransientValue_return

----------------------------------------------------------------------------
(* Specifications: one per part of the repository. *)

InitOracle == OracleInit /\ ContextIdle /\ TransientIdle

SpecOracle == InitOracle /\ [][OracleNext]_vars

InitContext == OracleIdle /\ ContextInit /\ TransientIdle

SpecContext == InitContext /\ [][ContextNext]_vars

InitTransient == OracleIdle /\ ContextIdle /\ TransientInit

SpecTransient == InitTransient /\ [][TransientNext]_vars

----------------------------------------------------------------------------
(* Properties of PreimageOracleData, checked under SpecOracle. *)

RECURSIVE Pow256(_)
Pow256(n) == IF n = 0 THEN 1 ELSE 256 * Pow256(n - 1)

\* C1: GetIdent fails (panics) whenever OracleKey is empty, so it never
\* returns an identifier, such as a default 0, for an empty key; for every
\* non-empty key it returns without failure.
C1_GetIdentFailsOnEmptyKey ==
    ret.op = "GetIdent" => (ret.panic <=> Len(pod[1].OracleKey) = 0)

C1_Witness ==
    /\ ret.op = "GetIdent"
    /\ ret.panic
    /\ pod[1].OracleKey = <<>>

\* C2 as stated: GetPreimageWithoutSize returns without failure for every
\* OracleData, also one shorter than 8 bytes, and GetIdent on an empty key
\* is the only failure among the payload functions.
C2_Original ==
    /\ ret.op = "GetPreimageWithoutSize" => ~ret.panic
    /\ ret.panic => (ret.op = "GetIdent" /\ pod[1].OracleKey = <<>>)

\* C2, amended: GetPreimageWithoutSize fails (panics) exactly when
\* OracleData has fewer than 8 bytes and otherwise returns OracleData with
\* its first 8 bytes removed; the failures of the payload functions are
\* GetIdent on an empty key and GetPreimageWithoutSize on fewer than 8 bytes.
C2_StripsPrefixOrFails ==
    /\ ret.op = "GetPreimageWithoutSize" =>
          LET data == pod[1].OracleData
          IN  /\ ret.panic <=> Len(data) < 8
              /\ ~ret.panic =>
                    /\ Len(ret.bytes) = Len(data) - 8
                    /\ \A i \in 1..Len(ret.bytes) : ret.bytes[i] = data[i + 8]
    /\ ret.panic =>
          \/ ret.op = "GetIdent" /\ pod[1].OracleKey = <<>>
          \/ ret.op = "GetPreimageWithoutSize" /\ Len(pod[1].OracleData) < 8

C2_Witness ==
    /\ ret.op = "GetPreimageWithoutSize"
    /\ ~ret.panic
    /\ Len(pod[1].OracleData) > 8
    /\ ret.bytes = <<pod[1].OracleData[9]>>

\* C3: NewPreimageOracleData sets IsLocal exactly when the key is non-empty
\* and its first byte is 1 (an empty key gives false without failing), and
\* stores LocalContext, OracleKey, OracleData and OracleOffset unchanged.
C3_NewPreimageOracleData ==
    pod # <<>> =>
       /\ pod[1].IsLocal <=> (Len(args.key) > 0 /\ args.key[1] = 1)
       /\ pod[1].LocalContext = args.lctx
       /\ pod[1].OracleKey = args.key
       /\ pod[1].OracleData = args.data
       /\ pod[1].OracleOffset = args.offset

C3_Witness ==
    /\ pod # <<>>
    /\ Len(args.key) > 1
    /\ args.key[1] = 1
    /\ pod[1].IsLocal
    /\ pod[1].OracleOffset = 7

\* C7: for a non-empty key GetIdent returns the big-endian unsigned integer
\* whose base-256 digits are the key's bytes after the tag byte, whatever the
\* tag byte is: [1, 5] and [1, 0, 5] give 5, a key of the tag alone gives 0.
C7_GetIdentValue ==
    (ret.op = "GetIdent" /\ ~ret.panic) =>
       LET key == pod[1].OracleKey
           n   == Len(key)
       IN  /\ ret.ident >= 0
           /\ ret.ident < Pow256(n - 1)
           /\ \A i \in 2..n : (ret.ident \div Pow256(n - i)) % 256 = key[i]
           /\ n = 1 => ret.ident = 0
           /\ key \in {<<1, 5>>, <<1, 0, 5>>} => ret.ident = 5

C7_Witness ==
    /\ ret.op = "GetIdent"
    /\ pod[1].OracleKey = <<0, 1, 5>>
    /\ ret.ident = 261

----------------------------------------------------------------------------
(* Properties of LocalContextPreimage and Claim, checked under SpecContext. *)

\* every field of the claim is the zero value of its type
IsZeroValued(c) ==
    /\ Len(c.Value) = 32
    /\ \A i \in 1..32 : c.Value[i] = 0
    /\ c.Position.depth = 0
    /\ c.Position.indexAtDepth = 0
    /\ ~c.Countered
    /\ c.Clock = 0
    /\ c.ContractIndex = 0
    /\ c.ParentContractIndex = 0

\* bytes is the 32 bytes of c.Value followed by the generalized index of
\* c.Position as a 32-byte big-endian integer
EncodesClaim(bytes, c) ==
    /\ Len(bytes) = 64
    /\ SubSeq(bytes, 1, 32) = c.Value
    /\ SetBytes(SubSeq(bytes, 33, 64)) = Pow2(c.Position.depth) + c.Position.indexAtDepth

\* the two preimages hold claims of the same Value and Position
SameClaimData(a, b) ==
    /\ a.Pre.Value = b.Pre.Value
    /\ a.Pre.Position = b.Pre.Position
    /\ a.Post.Value = b.Post.Value
    /\ a.Post.Position = b.Post.Position

\* every LocalContextPreimage of the model with its Preimage()
Preimages == {[lcp |-> l, bytes |-> Preimage(l).bytes] : l \in LocalContextPreimages}

\* the outcome of the last Preimage() or Hash() call is that of b as well
SameOutcome(b) ==
    IF out.op = "Preimage" THEN out.bytes = b.bytes
    ELSE out.hash = Keccak256Hash(b.bytes)

\* C4: UsePrestateBlock() is true exactly when every field of Pre is zero,
\* and Preimage() is 64 bytes long in that case and 128 bytes otherwise.
C4_UsePrestateBlockAndLength ==
    /\ out.op = "UsePrestateBlock" => (out.bool <=> IsZeroValued(lcp.Pre))
    /\ out.op = "Preimage" =>
          /\ ~out.panic
          /\ Len(out.bytes) = IF IsZeroValued(lcp.Pre) THEN 64 ELSE 128

C4_Witness ==
    /\ out.op = "Preimage"
    /\ Len(out.bytes) = 128
    /\ lcp.Pre.Value = ZeroHash
    /\ lcp.Pre.Position = NewPosition(0, 0)
    /\ lcp.Pre.Countered

\* C5: Preimage() is encode(Pre) followed by encode(Post), encode(Pre) left
\* out when Pre is the zero-valued claim; encode(c) is c.Value followed by
\* the generalized index of c.Position, 32 bytes big-endian.
C5_PreimageLayout ==
    out.op = "Preimage" =>
       IF IsZeroValued(lcp.Pre)
       THEN EncodesClaim(out.bytes, lcp.Post)
       ELSE /\ Len(out.bytes) = 128
            /\ EncodesClaim(SubSeq(out.bytes, 1, 64), lcp.Pre)
            /\ EncodesClaim(SubSeq(out.bytes, 65, 128), lcp.Post)

C5_Witness ==
    /\ out.op = "Preimage"
    /\ Len(out.bytes) = 128
    /\ lcp.Pre.Position = DeepPosition
    /\ lcp.Post.Position = NewPosition(1, 1)
    /\ lcp.Pre.Value # lcp.Post.Value
    /\ out.bytes[63] = 3 /\ out.bytes[64] = 2
    /\ out.bytes[128] = 3

\* C6 as stated: any LocalContextPreimage that differs in Pre, in Post or in
\* the Position of either has another Preimage() and another Hash().
C6_Original ==
    out.op \in {"Preimage", "Hash"} =>
       \A b \in Preimages : b.lcp # lcp => ~SameOutcome(b)

\* C6, amended: Preimage() and Hash() are functions of (Pre, Post), and any
\* LocalContextPreimage that differs in the Value or the (valid) Position of
\* Pre or of Post has another Preimage() and, keccak256 taken as injective,
\* another Hash().
C6_ChangesWithClaimData ==
    out.op \in {"Preimage", "Hash"} =>
       \A b \in Preimages :
          /\ b.lcp = lcp => SameOutcome(b)
          /\ ~SameClaimData(b.lcp, lcp) => ~SameOutcome(b)

C6_Witness ==
    /\ out.op = "Hash"
    /\ IsZeroValued(lcp.Pre)
    /\ \E b \in Preimages :
          /\ b.lcp.Post = lcp.Post
          /\ b.lcp.Pre.Value = lcp.Post.Value
          /\ b.lcp.Pre.Position = lcp.Post.Position
          /\ ~SameOutcome(b)

\* C10 as stated: two LocalContextPreimages whose Pre agree on Value and
\* Position and whose Post agree on Value and Position have the same
\* Preimage(), Hash() and UsePrestateBlock().
C10_Original ==
    \A b \in Preimages :
       SameClaimData(b.lcp, lcp) =>
          /\ out.op \in {"Preimage", "Hash"} => SameOutcome(b)
          /\ out.op = "UsePrestateBlock" => out.bool = UsePrestateBlock(b.lcp)

\* C10, amended: Preimage() and Hash() read Countered, Clock, ContractIndex
\* and ParentContractIndex only to decide whether Pre is the zero-valued
\* claim: two LocalContextPreimages that agree on the Value and Position of
\* Pre and of Post, and of which both or neither has a zero-valued Pre, have
\* the same Preimage(), Hash() and UsePrestateBlock().
C10_ChainStateOnlyThroughZeroPre ==
    \A b \in Preimages :
       (SameClaimData(b.lcp, lcp) /\ (IsZeroValued(b.lcp.Pre) <=> IsZeroValued(lcp.Pre))) =>
          /\ out.op \in {"Preimage", "Hash"} => SameOutcome(b)
          /\ out.op = "UsePrestateBlock" => out.bool = UsePrestateBlock(b.lcp)

C10_Witness ==
    /\ out.op = "Preimage"
    /\ ~IsZeroValued(lcp.Pre)
    /\ \E b \in Preimages :
          /\ SameClaimData(b.lcp, lcp)
          /\ ~IsZeroValued(b.lcp.Pre)
          /\ b.lcp.Pre.Countered # lcp.Pre.Countered
          /\ b.lcp.Post.ContractIndex # lcp.Post.ContractIndex
          /\ SameOutcome(b)

\* C8: IsRoot() of a claim is true exactly when its Position has depth 0 and
\* indexAtDepth 0, and is the same for every claim at that Position,
\* whatever its Value, Countered, Clock, ContractIndex, ParentContractIndex.
C8_IsRoot ==
    out.op = "IsRoot" =>
       LET c == lcp[out.subject]
       IN  /\ out.bool <=> (c.Position.depth = 0 /\ c.Position.indexAtDepth = 0)
           /\ \A d \in Claims : d.Position = c.Position => IsRoot(d) = out.bool

C8_Witness ==
    /\ out.op = "IsRoot"
    /\ out.subject = "Post"
    /\ out.bool
    /\ lcp.Post.ContractIndex = 1
    /\ lcp.Post.Value = MixedHash

----------------------------------------------------------------------------
(* Property of the Transient test contracts, checked under SpecTransient. *)

=============================================================================
